---------------------------- MODULE Spec2Model ----------------------------
(***************************************************************************)
(* A model of the read-only SQLite query engine of codecrafters-sqlite-go: *)
(* the varint decoder (varint.go), the serial-type sizing, column decoding *)
(* and record parsing (schema.go) and the table B-tree walk (btree.go).    *)
(*                                                                         *)
(* Bytes are integers 0..255 and a byte slice is a sequence of them.  A    *)
(* uint64 is a sequence of 64 bits, most significant first, so that the    *)
(* shifts and ors of the code keep their width.  A Go string is the        *)
(* sequence of its bytes.                                                  *)
(***************************************************************************)
EXTENDS Integers, Sequences, FiniteSets, TLC

VARIABLES
  file,     \* the database file: a sequence of pages, each PageSize bytes
  root,     \* page number the B-tree walk starts from
  tree,     \* the shape the file was laid out from (what the walk should find)
  corrupt,  \* "none", or the damage done to the last page of the file
  stopAt,   \* the processor: 0 always continues, k > 0 returns false from call k on
  stack,    \* traverseBTree's call stack: frames [pn, i], innermost last
  visited,  \* the processor's invocations so far: [rowid, cols]
  count,    \* countRows(root), -1 before it ran
  pc,       \* position of the program
  vin,      \* input of the pure decoder under test
  vout      \* its result

vars == <<file, root, tree, corrupt, stopAt, stack, visited, count, pc, vin, vout>>

-----------------------------------------------------------------------------
(* Bounds of the model *)

\* Bytes per page (the 16-bit field at file offset 16).
PageSize == 160
\* Cells per leaf page: 0..MaxCells.
MaxCells == 2
\* Children of an interior page: 1..MaxKids (cells plus the right child).
MaxKids == 2
\* The processor stops at call 1..MaxStop (or never).
MaxStop == 2
\* Rowids start after RowidBase, so that they cross the 1-byte varint limit.
RowidBase == 125
\* Bytes that follow an encoded varint in the buffer: 0..MaxTail.
MaxTail == 2
\* Serial types given to getSerialTypeSize: 0..MaxSerialType.
MaxSerialType == 120
\* Columns of a generated record: 0..MaxCols.
MaxCols == 2

\* A value no buffer length reaches: stands for every integer >= 2^30.
Huge == 1073741824

-----------------------------------------------------------------------------
(* Bits and bytes *)

Bytes == 0..255

Drop(s, n) == SubSeq(s, n + 1, Len(s))
Take(s, n) == SubSeq(s, 1, n)

RECURSIVE Pow2(_)
Pow2(k) == IF k = 0 THEN 1 ELSE 2 * Pow2(k - 1)

Zeros(n) == [i \in 1..n |-> 0]
OnesSeq(n) == [i \in 1..n |-> 1]
Zero64 == Zeros(64)

\* The 8 bits of a byte, most significant first.
ByteBits(b) == [i \in 1..8 |-> (b \div Pow2(8 - i)) % 2]

RECURSIVE BitsToNatAcc(_, _, _)
BitsToNatAcc(bits, i, acc) ==
  IF i > Len(bits) THEN acc ELSE BitsToNatAcc(bits, i + 1, 2 * acc + bits[i])
\* The number a short bit sequence (at most 30 bits) denotes.
BitsToNat(bits) == BitsToNatAcc(bits, 1, 0)

\* n >= 0 as a bit sequence of width w (n < 2^w, n < 2^31).
NatToBits(n, w) ==
  [i \in 1..w |-> IF w - i >= 31 THEN 0 ELSE (n \div Pow2(w - i)) % 2]

RECURSIVE BytesToBits(_)
BytesToBits(data) ==
  IF data = <<>> THEN <<>> ELSE ByteBits(Head(data)) \o BytesToBits(Tail(data))

\* x << k and x | y on a fixed-width word.
Shl(x, k) == [i \in 1..Len(x) |-> IF i + k <= Len(x) THEN x[i + k] ELSE 0]
Or(x, y) == [i \in 1..Len(x) |-> IF x[i] = 1 \/ y[i] = 1 THEN 1 ELSE 0]
Not(x) == [i \in 1..Len(x) |-> 1 - x[i]]
\* uint64(b) for a byte b.
U64OfByte(b) == Zeros(56) \o ByteBits(b)
IsZero(x) == \A i \in 1..Len(x) : x[i] = 0

\* a < b for two words of the same width.
RECURSIVE BitsLessFrom(_, _, _)
BitsLessFrom(a, b, i) ==
  IF i > Len(a) THEN FALSE
  ELSE IF a[i] # b[i] THEN a[i] < b[i]
  ELSE BitsLessFrom(a, b, i + 1)
U64Less(a, b) == BitsLessFrom(a, b, 1)

\* int(x) of a uint64 as far as the model's integers reach: exact below 2^30,
\* Huge from there on (more than any slice length of the model).
SatInt(x) == IF IsZero(Take(x, 34)) THEN BitsToNat(Drop(x, 34)) ELSE Huge

-----------------------------------------------------------------------------
(* varint.go *)

\* readVarint, bytes 1 to 8: result = (result << 7) | uint64(b&0x7F).
VarintTake7(result, b) == Or(Shl(result, 7), U64OfByte(b % 128))

\* A faulty variant of VarintTake9: the ninth byte treated like the first eight.
VarintTake9_SevenBits(result, b) == Or(Shl(result, 7), U64OfByte(b % 128))
\* readVarint, the ninth byte: result = (result << 8) | uint64(b).
VarintTake9(result, b) == Or(Shl(result, 8), U64OfByte(b))

\* The loop of readVarint from index i (0-based) with the result so far.
RECURSIVE readVarintFrom(_, _, _)
readVarintFrom(data, i, result) ==
  IF i >= 9 THEN [value |-> result, n |-> 9]
  ELSE IF i >= Len(data) THEN [value |-> Zero64, n |-> 0]
  ELSE LET b == data[i + 1] IN
       IF i = 8 THEN [value |-> VarintTake9(result, b), n |-> i + 1]
       ELSE IF b \div 128 = 0
            THEN [value |-> VarintTake7(result, b), n |-> i + 1]
            ELSE readVarintFrom(data, i + 1, VarintTake7(result, b))

\* readVarint(data) (uint64, int)
readVarint(data) == readVarintFrom(data, 0, Zero64)

-----------------------------------------------------------------------------
(* The varint encoding (spec 4.1, the SQLite file format): the inputs of   *)
(* readVarint.                                                             *)

\* The k-th (1-based, most significant first) 7-bit group of the low 56 bits.
Group7(v, k) == BitsToNat(SubSeq(v, 8 + 7 * (k - 1) + 1, 8 + 7 * k))

\* Number of 7-bit groups a value below 2^56 needs (at least one).
RECURSIVE GroupsNeeded(_, _)
GroupsNeeded(v, k) ==
  IF k = 8 THEN 1
  ELSE IF Group7(v, k) # 0 THEN 9 - k
  ELSE GroupsNeeded(v, k + 1)

EncodeVarint(v) ==
  IF ~IsZero(Take(v, 8))
  THEN \* nine bytes: 8 x 7 bits of the top 56, then the low 8 bits whole
       [k \in 1..9 |-> IF k <= 8
                       THEN 128 + BitsToNat(SubSeq(v, 7 * (k - 1) + 1, 7 * k))
                       ELSE BitsToNat(SubSeq(v, 57, 64))]
  ELSE LET n == GroupsNeeded(v, 1) IN
       [k \in 1..n |-> (IF k < n THEN 128 ELSE 0) + Group7(v, 8 - n + k)]

\* The uint64 of a small number.
U64(n) == NatToBits(n, 64)

\* 2^k and 2^k - 1 as uint64, an alternating pattern and its complement.
U64Pow2(k) == [i \in 1..64 |-> IF i = 64 - k THEN 1 ELSE 0]
U64Ones(k) == [i \in 1..64 |-> IF i > 64 - k THEN 1 ELSE 0]
U64Alt == [i \in 1..64 |-> i % 2]

VarintValues ==
  {U64Pow2(k) : k \in 0..63} \cup {U64Ones(k) : k \in 0..64}
    \cup {U64Alt, Not(U64Alt), U64(300), U64(16383), U64(16384)}

\* What may follow a varint in a buffer.
TailBytes ==
  {[i \in 1..k |-> IF i = 1 THEN 129 ELSE 0] : k \in 0..MaxTail}
    \cup {[i \in 1..k |-> 255] : k \in 0..MaxTail}

\* data ends before readVarint meets a terminating byte.
IsTruncated(data) ==
  /\ Len(data) < 9
  /\ \A i \in 1..Len(data) : data[i] >= 128

-----------------------------------------------------------------------------
(* Decimal text: fmt.Sprintf("%d", v) *)

\* x + 1 on a fixed-width word (wrapping).
Inc(x) ==
  [i \in 1..Len(x) |->
     IF \A j \in (i + 1)..Len(x) : x[j] = 1 THEN 1 - x[i] ELSE x[i]]
\* -x in two's complement.
Neg(x) == Inc(Not(x))

\* x / 10 and x % 10 of an unsigned 64-bit word, by long division over its
\* four 16-bit limbs.
DivMod10(x) ==
  LET t1 == BitsToNat(SubSeq(x, 1, 16))
      t2 == (t1 % 10) * 65536 + BitsToNat(SubSeq(x, 17, 32))
      t3 == (t2 % 10) * 65536 + BitsToNat(SubSeq(x, 33, 48))
      t4 == (t3 % 10) * 65536 + BitsToNat(SubSeq(x, 49, 64))
  IN [q |-> NatToBits(t1 \div 10, 16) \o NatToBits(t2 \div 10, 16)
              \o NatToBits(t3 \div 10, 16) \o NatToBits(t4 \div 10, 16),
      r |-> t4 % 10]

RECURSIVE FormatUintAcc(_, _)
FormatUintAcc(x, acc) ==
  IF IsZero(x) THEN (IF acc = <<>> THEN <<48>> ELSE acc)
  ELSE LET d == DivMod10(x) IN FormatUintAcc(d.q, <<48 + d.r>> \o acc)
\* The decimal digits of an unsigned word, as ASCII.
FormatUint(x) == FormatUintAcc(x, <<>>)
\* The decimal text of a signed (two's complement) word: "%d".
FormatInt(x) == IF x[1] = 1 THEN <<45>> \o FormatUint(Neg(x)) ELSE FormatUint(x)

\* A signed word widened to 64 bits (the conversion of an int8, int16 or int32
\* that Sprintf prints).
SignExtend64(x) == [i \in 1..64 |-> IF i <= 64 - Len(x) THEN x[1] ELSE x[i - (64 - Len(x))]]
ZeroExtend(x, w) == Zeros(w - Len(x)) \o x

\* fmt.Sprintf("%f", v) of the float64 with these 8 bytes: "0.000000" for
\* +0, and otherwise left uninterpreted (a tag no text starts with, and the
\* bytes).
FormatFloat(data8) ==
  IF \A i \in 1..8 : data8[i] = 0 THEN <<48, 46, 48, 48, 48, 48, 48, 48>>
  ELSE <<256>> \o data8

-----------------------------------------------------------------------------
(* schema.go: getSerialTypeSize, readColumnValue, parseRecord *)

\* A faulty variant of getSerialTypeSize: the 48-bit integer sized 5 bytes.
getSerialTypeSize_FiveByteInt48(serialType) ==
  IF serialType = 0 THEN 0
  ELSE IF serialType \in 1..4 THEN serialType
  ELSE IF serialType = 5 THEN 5
  ELSE IF serialType = 6 \/ serialType = 7 THEN 8
  ELSE IF serialType = 8 \/ serialType = 9 THEN 0
  ELSE IF serialType >= 12 /\ serialType % 2 = 0 THEN (serialType - 12) \div 2
  ELSE IF serialType >= 13 /\ serialType % 2 = 1 THEN (serialType - 13) \div 2
  ELSE 0
\* getSerialTypeSize(serialType uint64) int
getSerialTypeSize(serialType) ==
  IF serialType = 0 THEN 0
  ELSE IF serialType = 1 THEN 1
  ELSE IF serialType = 2 THEN 2
  ELSE IF serialType = 3 THEN 3
  ELSE IF serialType = 4 THEN 4
  ELSE IF serialType = 5 THEN 6
  ELSE IF serialType = 6 THEN 8
  ELSE IF serialType = 7 THEN 8
  ELSE IF serialType = 8 \/ serialType = 9 THEN 0
  ELSE IF serialType >= 12 /\ serialType % 2 = 0 THEN (serialType - 12) \div 2
  ELSE IF serialType >= 13 /\ serialType % 2 = 1 THEN (serialType - 13) \div 2
  ELSE 0

\* binary.Read(bytes.NewReader(data), binary.BigEndian, &val) for a signed
\* integer of w bytes: the first w bytes, or val left 0 when data is shorter
\* (the error is ignored).
BinaryReadInt(data, w) ==
  IF Len(data) < w THEN Zeros(8 * w) ELSE BytesToBits(Take(data, w))

\* A faulty variant of SignExtendNarrow: the sign bit is not propagated.
SignExtendNarrow_Unsigned(val, used) == val
\* "if val&0x800000 != 0 { val |= ^0xFFFFFF }" for a value that fills the low
\* `used` bits of val.
SignExtendNarrow(val, used) ==
  IF val[Len(val) - used + 1] = 1
  THEN Or(val, Not(ZeroExtend(OnesSeq(used), Len(val))))
  ELSE val

Returned(s) == [panic |-> FALSE, str |-> s]
\* An index or slice bound out of range: the Go runtime panics.
Panicked == [panic |-> TRUE, str |-> <<>>]

\* readColumnValue(data []byte, serialType uint64) string
readColumnValue(data, serialType) ==
  IF serialType = 0 THEN Returned(<<>>)
  ELSE IF serialType = 1 THEN
    IF Len(data) < 1 THEN Panicked
    ELSE Returned(FormatInt(SignExtend64(ByteBits(data[1]))))
  ELSE IF serialType = 2 THEN Returned(FormatInt(SignExtend64(BinaryReadInt(data, 2))))
  ELSE IF serialType = 3 THEN
    IF Len(data) < 3 THEN Panicked
    ELSE Returned(FormatInt(SignExtend64(
           SignExtendNarrow(ZeroExtend(BytesToBits(Take(data, 3)), 32), 24))))
  ELSE IF serialType = 4 THEN Returned(FormatInt(SignExtend64(BinaryReadInt(data, 4))))
  ELSE IF serialType = 5 THEN
    IF Len(data) < 6 THEN Panicked
    ELSE Returned(FormatInt(
           SignExtendNarrow(ZeroExtend(BytesToBits(Take(data, 6)), 64), 48)))
  ELSE IF serialType = 6 THEN Returned(FormatInt(BinaryReadInt(data, 8)))
  ELSE IF serialType = 7 THEN
    Returned(FormatFloat(IF Len(data) < 8 THEN Zeros(8) ELSE Take(data, 8)))
  ELSE IF serialType = 8 THEN Returned(<<48>>)
  ELSE IF serialType = 9 THEN Returned(<<49>>)
  ELSE IF serialType >= 12 /\ serialType % 2 = 0 THEN Returned(data)
  ELSE IF serialType >= 13 /\ serialType % 2 = 1 THEN Returned(data)
  ELSE Returned(<<>>)

\* parseRecord's header loop: the serial types of headerData, read from
\* headerBytesRead on.
RECURSIVE readSerialTypes(_, _, _)
readSerialTypes(headerData, headerBytesRead, serialTypes) ==
  IF headerBytesRead >= Len(headerData) THEN serialTypes
  ELSE LET r == readVarint(Drop(headerData, headerBytesRead)) IN
       IF r.n = 0 THEN serialTypes
       ELSE readSerialTypes(headerData, headerBytesRead + r.n,
                            Append(serialTypes, SatInt(r.value)))

\* parseRecord's body loop from column i (1-based) at offset.
RECURSIVE readColumns(_, _, _, _, _)
readColumns(body, serialTypes, i, offset, columnValues) ==
  IF i > Len(serialTypes) THEN [panic |-> FALSE, cols |-> columnValues]
  ELSE LET colSize == getSerialTypeSize(serialTypes[i]) IN
       IF offset + colSize > Len(body) THEN [panic |-> TRUE, cols |-> <<>>]
       ELSE LET v == readColumnValue(SubSeq(body, offset + 1, offset + colSize),
                                     serialTypes[i]) IN
            IF v.panic THEN [panic |-> TRUE, cols |-> <<>>]
            ELSE readColumns(body, serialTypes, i + 1, offset + colSize,
                             Append(columnValues, v.str))

\* A faulty variant of HeaderEnd: the header length counted from after its own varint.
HeaderEnd_AfterLengthVarint(bytesRead, headerSize) == bytesRead + headerSize
\* Where the record header ends in the slice that starts at the header-length
\* varint: cellData[bytesRead:headerSize], cellData[headerSize:].
HeaderEnd(bytesRead, headerSize) == headerSize

RecordPanic == [panic |-> TRUE, rowid |-> Zero64, columnValues |-> <<>>, err |-> "nil"]

\* parseRecord(cellData []byte) (rowid uint64, columnValues []string, err error)
parseRecord(cellData) ==
  LET size == readVarint(cellData)
      c1 == Drop(cellData, size.n)
      rid == readVarint(c1)
      c2 == Drop(c1, rid.n)
      hdr == readVarint(c2)
      headerEnd == HeaderEnd(hdr.n, SatInt(hdr.value))
  IN IF headerEnd > Len(c2) \/ hdr.n > headerEnd THEN RecordPanic
     ELSE LET headerData == SubSeq(c2, hdr.n + 1, headerEnd)
              body == Drop(c2, headerEnd)
              serialTypes == readSerialTypes(headerData, 0, <<>>)
              cols == readColumns(body, serialTypes, 1, 0, <<>>)
          IN IF cols.panic THEN RecordPanic
             ELSE [panic |-> FALSE, rowid |-> rid.value,
                   columnValues |-> cols.cols, err |-> "nil"]

-----------------------------------------------------------------------------
(* Decimal arithmetic on digit sequences (most significant first): what    *)
(* the decoded integers are compared with.                                 *)

RECURSIVE NatDigits(_)
NatDigits(n) == IF n < 10 THEN <<n>> ELSE Append(NatDigits(n \div 10), n % 10)

RECURSIVE StripZeros(_)
StripZeros(d) == IF Len(d) > 1 /\ d[1] = 0 THEN StripZeros(Tail(d)) ELSE d

\* d * m + carry, from digit i down.
RECURSIVE DecMulAddFrom(_, _, _, _, _)
DecMulAddFrom(d, i, m, carry, acc) ==
  IF i = 0 THEN StripZeros(NatDigits(carry) \o acc)
  ELSE LET t == d[i] * m + carry IN
       DecMulAddFrom(d, i - 1, m, t \div 10, <<t % 10>> \o acc)
DecMulAdd(d, m, a) == DecMulAddFrom(d, Len(d), m, a, <<>>)

\* The unsigned big-endian value of a byte sequence.
RECURSIVE DecOfBytesAcc(_, _)
DecOfBytesAcc(data, d) ==
  IF data = <<>> THEN d ELSE DecOfBytesAcc(Tail(data), DecMulAdd(d, 256, Head(data)))
DecOfBytes(data) == DecOfBytesAcc(data, <<0>>)

\* a - b for a >= b.
RECURSIVE DecSubFrom(_, _, _, _, _)
DecSubFrom(a, b, i, borrow, acc) ==
  IF i = 0 THEN StripZeros(acc)
  ELSE LET j == i - (Len(a) - Len(b))
           bi == IF j >= 1 THEN b[j] ELSE 0
           t == a[i] - bi - borrow
       IN IF t < 0 THEN DecSubFrom(a, b, i - 1, 1, <<t + 10>> \o acc)
          ELSE DecSubFrom(a, b, i - 1, 0, <<t>> \o acc)
DecSub(a, b) == DecSubFrom(a, b, Len(a), 0, <<>>)

DecText(d) == [i \in 1..Len(d) |-> 48 + d[i]]

\* The text of the big-endian two's-complement integer stored in data: u when
\* the top bit is clear, u - 2^(8w) otherwise.
SignedText(data) ==
  IF data[1] < 128 THEN DecText(DecOfBytes(data))
  ELSE <<45>> \o DecText(DecSub(DecOfBytes(<<1>> \o Zeros(Len(data))), DecOfBytes(data)))

\* Stored width of the integer serial types (spec 4.2).
IntWidth(t) == CASE t = 1 -> 1 [] t = 2 -> 2 [] t = 3 -> 3 [] t = 4 -> 4
                 [] t = 5 -> 6 [] t = 6 -> 8

\* The size table of spec 4.2, for the defined serial types.
TableSize(n) ==
  CASE n = 0 -> 0
    [] n \in 1..4 -> n
    [] n = 5 -> 6
    [] n \in {6, 7} -> 8
    [] n \in {8, 9} -> 0
    [] n >= 12 /\ n % 2 = 0 -> (n - 12) \div 2
    [] n >= 13 /\ n % 2 = 1 -> (n - 13) \div 2

-----------------------------------------------------------------------------
(* Specification of the varint decoder *)

NoBTree ==
  /\ file = <<>> /\ root = 0 /\ tree = <<>> /\ corrupt = "none" /\ stopAt = 0
  /\ stack = <<>> /\ visited = <<>> /\ count = -1

BTreeUnchanged == UNCHANGED <<file, root, tree, corrupt, stopAt, stack, visited, count>>

VarintInit ==
  /\ NoBTree
  /\ pc = "varint"
  /\ vout = <<>>
  /\ \E v \in VarintValues :
       \/ \E t \in TailBytes : vin = [v |-> v, cut |-> FALSE, data |-> EncodeVarint(v) \o t]
       \/ \E k \in 0..8 :
            /\ k < Len(EncodeVarint(v))
            /\ vin = [v |-> v, cut |-> TRUE, data |-> Take(EncodeVarint(v), k)]

\* A caller decodes the varint at the start of its buffer.
CallReadVarint ==
  /\ pc = "varint"
  /\ vout' = readVarint(vin.data)
  /\ pc' = "done"
  /\ UNCHANGED vin
  /\ BTreeUnchanged

VarintNext == CallReadVarint

VarintSpec == VarintInit /\ [][VarintNext]_vars

\* C5: for every v in [0, 2^64-1], readVarint of the encoding of v followed by
\* any bytes returns v and the length of the encoding.
C5_VarintRoundTrip ==
  (pc = "done" /\ ~vin.cut) =>
     /\ vout.value = vin.v
     /\ vout.n = Len(EncodeVarint(vin.v))

\* C5's case: a nine-byte encoding, followed by more bytes, was decoded.
C5_Witness ==
  /\ pc = "done" /\ ~vin.cut
  /\ Len(EncodeVarint(vin.v)) = 9
  /\ Len(vin.data) > 9
  /\ vin.v[64] = 1
  /\ vout.n = 9

\* C6: a buffer that ends before the varint does is a reported failure, never
\* the pair (0, 0).
C6_TruncatedIsReported ==
  (pc = "done" /\ vin.cut) => ~(vout.value = Zero64 /\ vout.n = 0)

-----------------------------------------------------------------------------
(* Specification of the column decoders: getSerialTypeSize and             *)
(* readColumnValue on their own.                                           *)

\* Stored integers of w bytes: the first, the middle and the last byte vary.
IntPatterns(w) ==
  {[i \in 1..w |-> IF i = 1 THEN hi ELSE IF i = w THEN lo ELSE mid] :
     hi \in {0, 1, 127, 128, 255}, mid \in {0, 90, 255}, lo \in {0, 1, 255}}

DecoderInputs ==
  {[op |-> "size", serialType |-> t, data |-> <<>>] : t \in 0..MaxSerialType}
    \cup UNION {{[op |-> "value", serialType |-> t, data |-> d] : d \in IntPatterns(IntWidth(t))} :
                  t \in 1..6}
    \cup {[op |-> "value", serialType |-> t, data |-> <<>>] : t \in {0, 8, 9, 10, 11, 12, 13}}
    \cup {[op |-> "value", serialType |-> 7, data |-> d] : d \in {Zeros(8), <<63, 240, 0, 0, 0, 0, 0, 0>>}}
    \cup {[op |-> "value", serialType |-> 12 + k, data |-> [i \in 1..(k \div 2) |-> 96 + i]] : k \in 2..7}

DecoderInit ==
  /\ NoBTree
  /\ pc = "call"
  /\ vout = <<>>
  /\ vin \in DecoderInputs

CallGetSerialTypeSize ==
  /\ pc = "call" /\ vin.op = "size"
  /\ vout' = getSerialTypeSize(vin.serialType)
  /\ pc' = "done"
  /\ UNCHANGED vin
  /\ BTreeUnchanged

CallReadColumnValue ==
  /\ pc = "call" /\ vin.op = "value"
  /\ vout' = readColumnValue(vin.data, vin.serialType)
  /\ pc' = "done"
  /\ UNCHANGED vin
  /\ BTreeUnchanged

DecoderNext == CallGetSerialTypeSize \/ CallReadColumnValue

DecoderSpec == DecoderInit /\ [][DecoderNext]_vars

\* C7: getSerialTypeSize agrees with the size table of spec 4.2 on every
\* defined serial type (all but 10 and 11).
C7_SerialTypeSizeTable ==
  (pc = "done" /\ vin.op = "size" /\ vin.serialType \notin {10, 11}) =>
     vout = TableSize(vin.serialType)

\* C7's case: the size of a text type of 43 bytes was computed.
C7_Witness ==
  /\ pc = "done" /\ vin.op = "size"
  /\ vin.serialType = 99
  /\ vout = 43

\* C9: readColumnValue renders the integer types 1..6 as the sign-extended
\* big-endian two's-complement value of their bytes, and types 8 and 9 as 0
\* and 1 from no bytes.
C9_IntegersSignExtended ==
  (pc = "done" /\ vin.op = "value") =>
     /\ vin.serialType \in 1..6 =>
          /\ ~vout.panic
          /\ vout.str = SignedText(vin.data)
     /\ (vin.serialType = 1 /\ vin.data = <<255>>) => vout.str = <<45, 49>>
     /\ (vin.serialType = 2 /\ vin.data = <<128, 0>>) =>
          vout.str = <<45, 51, 50, 55, 54, 56>>
     /\ vin.serialType = 8 =>
          vout = Returned(<<48>>) /\ getSerialTypeSize(8) = 0
     /\ vin.serialType = 9 =>
          vout = Returned(<<49>>) /\ getSerialTypeSize(9) = 0

\* C9's case: a negative 24-bit integer was decoded.
C9_Witness ==
  /\ pc = "done" /\ vin.op = "value"
  /\ vin.serialType = 3 /\ vin.data[1] >= 128
  /\ vout.str[1] = 45

-----------------------------------------------------------------------------
(* Leaf cells (spec 4.4): payload size, rowid, record header, record body  *)

RECURSIVE Concat(_)
Concat(ss) == IF ss = <<>> THEN <<>> ELSE Head(ss) \o Concat(Tail(ss))

\* The cell of the row (rowid, cols), cols a sequence of [t, d]: serial type
\* and stored bytes.  The header length counts its own varint.
LeafCell(rowid, cols) ==
  LET types == Concat([i \in 1..Len(cols) |-> EncodeVarint(U64(cols[i].t))])
      body == Concat([i \in 1..Len(cols) |-> cols[i].d])
      H == Len(types) + (IF Len(types) + 1 < 128 THEN 1 ELSE 2)
  IN EncodeVarint(U64(H + Len(body))) \o EncodeVarint(rowid)
       \o EncodeVarint(U64(H)) \o types \o body

\* Columns a generated record is made of.
ColumnPool ==
  { [t |-> 0, d |-> <<>>],
    [t |-> 1, d |-> <<255>>],
    [t |-> 2, d |-> <<128, 0>>],
    [t |-> 5, d |-> <<255, 255, 255, 255, 255, 254>>],
    [t |-> 9, d |-> <<>>],
    [t |-> 14, d |-> <<7>>],
    [t |-> 17, d |-> <<104, 105>>],
    [t |-> 133, d |-> [i \in 1..60 |-> 97]],
    [t |-> 10, d |-> <<>>] }

ColumnLists == UNION {[1..n -> ColumnPool] : n \in 0..MaxCols}

HasReserved(cols) == \E i \in 1..Len(cols) : cols[i].t \in {10, 11}

-----------------------------------------------------------------------------
(* Specification of the record decoder *)

\* A cell that is not well formed.  "misaligned": the header length is one
\* less than the header's, so the header ends after the first byte of the last
\* serial-type varint (cols ends with a two-byte serial type).  "short": the
\* buffer ends one byte before the end of the body.
MalformedCell(rowid, cols, damage) ==
  LET types == Concat([i \in 1..Len(cols) |-> EncodeVarint(U64(cols[i].t))])
      body == Concat([i \in 1..Len(cols) |-> cols[i].d])
      H == Len(types) + 1
  IN IF damage = "misaligned"
     THEN EncodeVarint(U64(H + Len(body))) \o EncodeVarint(rowid)
            \o EncodeVarint(U64(H - 1)) \o types \o body
     ELSE Take(LeafCell(rowid, cols), Len(LeafCell(rowid, cols)) - 1)

BodyLen(cols) == Len(Concat([i \in 1..Len(cols) |-> cols[i].d]))

RecordInit ==
  /\ NoBTree
  /\ pc = "call"
  /\ vout = <<>>
  /\ \E rowid \in {U64(1), U64(128), U64Ones(64)}, cols \in ColumnLists :
       \/ \E rest \in {<<>>, <<13, 0>>} :
            vin = [op |-> "record", rowid |-> rowid, cols |-> cols,
                   damage |-> "none",
                   data |-> LeafCell(rowid, cols) \o rest]
       \/ /\ ~HasReserved(cols) /\ Len(cols) > 0
          /\ cols[Len(cols)].t >= 128
          /\ vin = [op |-> "record", rowid |-> rowid, cols |-> cols,
                    damage |-> "misaligned",
                    data |-> MalformedCell(rowid, cols, "misaligned")]
       \/ /\ ~HasReserved(cols) /\ BodyLen(cols) > 0
          /\ vin = [op |-> "record", rowid |-> rowid, cols |-> cols,
                    damage |-> "short",
                    data |-> MalformedCell(rowid, cols, "short")]

\* traverseBTree hands the bytes from the cell's offset to the end of the
\* page to parseRecord.
CallParseRecord ==
  /\ pc = "call" /\ vin.op = "record"
  /\ vout' = parseRecord(vin.data)
  /\ pc' = "done"
  /\ UNCHANGED vin
  /\ BTreeUnchanged

RecordNext == CallParseRecord

RecordSpec == RecordInit /\ [][RecordNext]_vars

\* C8: a record whose header holds serial type 10 or 11 fails to decode; no
\* value is produced for the reserved code.
C8_ReservedTypesFail ==
  (pc = "done" /\ vin.op = "record" /\ vin.damage = "none"
     /\ HasReserved(vin.cols)) =>
     (vout.panic \/ vout.err # "nil")

\* C10: for a well-formed leaf cell parseRecord returns the cell's rowid and
\* one value per serial type of the header, column i decoded from its own
\* bytes of the body.
C10_RecordColumns ==
  (pc = "done" /\ vin.op = "record" /\ vin.damage = "none"
     /\ ~HasReserved(vin.cols)) =>
     /\ ~vout.panic /\ vout.err = "nil"
     /\ vout.rowid = vin.rowid
     /\ Len(vout.columnValues) = Len(vin.cols)
     /\ \A i \in 1..Len(vin.cols) :
          vout.columnValues[i] = readColumnValue(vin.cols[i].d, vin.cols[i].t).str

\* C10's case: a record of two columns, the second after a column of stored
\* bytes, was parsed out of a longer buffer.
C10_Witness ==
  /\ pc = "done" /\ vin.op = "record" /\ vin.damage = "none"
  /\ Len(vin.cols) = 2 /\ vin.cols[1].t = 133 /\ vin.cols[2].t = 2
  /\ Len(vin.data) > Len(LeafCell(vin.rowid, vin.cols))
  /\ vout.columnValues[2] = <<45, 51, 50, 55, 54, 56>>

\* C11: for a cell whose header length does not end on a serial-type boundary,
\* or whose columns need more bytes than the buffer holds after the header,
\* parseRecord returns an error: it neither panics nor returns err = nil.
C11_MalformedIsError ==
  (pc = "done" /\ vin.op = "record" /\ vin.damage # "none") =>
     (~vout.panic /\ vout.err # "nil")

\* The two ways C11 fails: the misaligned header is decoded as a shorter
\* record with err = nil, and the short body makes the slice expression panic.
C11_MisalignedAccepted ==
  (pc = "done" /\ vin.op = "record" /\ vin.damage = "misaligned") =>
     (vout.panic \/ vout.err # "nil")

C11_ShortBodyNoPanic ==
  (pc = "done" /\ vin.op = "record" /\ vin.damage = "short") => ~vout.panic

-----------------------------------------------------------------------------
(* The database file (spec 4.5, 6): pages laid out from a tree shape.      *)
(* A shape is [n, kids]: a leaf of n rows when kids is empty, otherwise an *)
(* interior page whose last kid is its right child and whose other kids    *)
(* are the left children of its cells.                                     *)

Leaf(n) == [n |-> n, kids |-> <<>>]
Interior(kids) == [n |-> 0, kids |-> kids]

LeafShapes == {Leaf(c) : c \in 0..MaxCells}
FlatShapes == {Interior(ks) : ks \in UNION {[1..k -> LeafShapes] : k \in 1..MaxKids}}
DeepShapes ==
  {Interior(<<Interior(<<Leaf(a), Leaf(b)>>), Interior(<<Leaf(b)>>)>>) : a, b \in 0..MaxCells}
    \cup {Interior(<<Leaf(a), Interior(<<Leaf(b), Leaf(a)>>)>>) : a, b \in 0..MaxCells}
Shapes == LeafShapes \cup FlatShapes \cup DeepShapes

RECURSIVE NumPages(_)
RECURSIVE NumPagesOf(_, _)
\* Pages of the first i kids.
NumPagesOf(kids, i) == IF i = 0 THEN 0 ELSE NumPagesOf(kids, i - 1) + NumPages(kids[i])
NumPages(t) == 1 + NumPagesOf(t.kids, Len(t.kids))

RECURSIVE NumRows(_)
RECURSIVE NumRowsOf(_, _)
\* Rows of the first i kids.
NumRowsOf(kids, i) == IF i = 0 THEN 0 ELSE NumRowsOf(kids, i - 1) + NumRows(kids[i])
NumRows(t) == t.n + NumRowsOf(t.kids, Len(t.kids))

\* Leaves below an interior page that has only leaf children.
IsFlat(t) == t.kids # <<>> /\ \A i \in 1..Len(t.kids) : t.kids[i].kids = <<>>

U16BE(n) == <<n \div 256, n % 256>>
U32BE(n) == <<0, (n \div 65536) % 256, (n \div 256) % 256, n % 256>>

\* The 100-byte file header: the magic string and the page size at 16..17.
FileHeader ==
  [i \in 1..100 |->
     IF i <= 16 THEN <<83, 81, 76, 105, 116, 101, 32, 102, 111, 114, 109, 97, 116, 32, 51, 0>>[i]
     ELSE IF i = 17 THEN PageSize \div 256
     ELSE IF i = 18 THEN PageSize % 256
     ELSE 0]

RECURSIVE TotalLen(_, _)
\* Bytes of the first i cells.
TotalLen(cells, i) == IF i = 0 THEN 0 ELSE TotalLen(cells, i - 1) + Len(cells[i])

\* The bytes of page pn: the page header (after the file header on page 1),
\* the cell pointer array, and the cells packed against the end of the page,
\* the first cell last.
MakePage(pn, type, cells, right) ==
  LET n == Len(cells)
      at == [i \in 1..n |-> PageSize - TotalLen(cells, i)]
      top == (IF pn = 1 THEN FileHeader ELSE <<>>)
               \o <<type, 0, 0>> \o U16BE(n) \o U16BE(PageSize - TotalLen(cells, n)) \o <<0>>
               \o (IF type = 5 THEN U32BE(right) ELSE <<>>)
               \o Concat([i \in 1..n |-> U16BE(at[i])])
      content == Concat([i \in 1..n |-> cells[n + 1 - i]])
  IN top \o Zeros(PageSize - Len(top) - Len(content)) \o content

\* The r-th row of table t (id integer primary key, n integer, c TEXT): rowid
\* RowidBase + r, NULL in the slot of the rowid alias, an 8-bit integer and a
\* text of one byte.
RowId(r) == U64(RowidBase + r)
RowCols(r) ==
  << [t |-> 0, d |-> <<>>],
     [t |-> 1, d |-> <<(3 * r + 126) % 256>>],
     [t |-> 15, d |-> <<65 + (r % 2)>>] >>

\* The pages of shape t from page pn on, its rows numbered after firstRow.
RECURSIVE Layout(_, _, _)
Layout(t, pn, firstRow) ==
  IF t.kids = <<>>
  THEN <<MakePage(pn, 13, [i \in 1..t.n |-> LeafCell(RowId(firstRow + i), RowCols(firstRow + i))], 0)>>
  ELSE LET k == Len(t.kids)
           kidPage == [i \in 1..k |-> pn + 1 + NumPagesOf(t.kids, i - 1)]
           kidRow == [i \in 1..k |-> firstRow + NumRowsOf(t.kids, i - 1)]
           cells == [i \in 1..(k - 1) |->
                       U32BE(kidPage[i]) \o EncodeVarint(RowId(firstRow + NumRowsOf(t.kids, i)))]
       IN <<MakePage(pn, 5, cells, kidPage[k])>>
            \o Concat([i \in 1..k |-> Layout(t.kids[i], kidPage[i], kidRow[i])])

\* Page 1 when the table starts at page 2: the schema table, one row.
SchemaPage ==
  MakePage(1, 13, <<LeafCell(U64(1), <<[t |-> 15, d |-> <<116>>], [t |-> 15, d |-> <<97>>],
                                       [t |-> 15, d |-> <<97>>], [t |-> 1, d |-> <<2>>],
                                       [t |-> 19, d |-> <<40, 120, 41>>]>>)>>, 0)

\* The file holding shape t at page r (1 or 2), then damaged.
\* The file whose interior page pn names itself as its rightmost child: the
\* four bytes at headerOffset + 8 hold pn.
SelfRight(pages, pn) ==
  LET ho == IF pn = 1 THEN 100 ELSE 0
  IN [pages EXCEPT ![pn] = [@ EXCEPT ![ho + 12] = pn]]

\* The file whose interior page pn names itself as the left child of its
\* first cell: the four bytes at the first cell pointer hold pn.
SelfLeft(pages, pn) ==
  LET ho == IF pn = 1 THEN 100 ELSE 0
      cellPointer == pages[pn][ho + 13] * 256 + pages[pn][ho + 14]
  IN [pages EXCEPT ![pn] = [@ EXCEPT ![cellPointer + 4] = pn]]

MakeFile(t, r, damage) ==
  LET pages == (IF r = 1 THEN <<>> ELSE <<SchemaPage>>) \o Layout(t, r, 0)
      last == Len(pages)
      ho == IF last = 1 THEN 100 ELSE 0
  IN IF damage = "badtype"
     THEN [pages EXCEPT ![last] = [@ EXCEPT ![ho + 1] = 10]]
     ELSE IF damage = "short" THEN Take(pages, last - 1)
     ELSE IF damage = "selfright" THEN SelfRight(pages, r)
     ELSE IF damage = "selfleft" THEN SelfLeft(pages, r)
     ELSE pages

-----------------------------------------------------------------------------
(* btree.go: page access *)

\* file.ReadAt(page, (pageNum-1)*pageSize) fills the page: err == nil.
Readable(f, pageNum) == pageNum \in 1..Len(f)

\* binary.Read of a uint16 / uint32 at a 0-based offset of the page.  A page
\* number of 2^30 or more is Huge: past the end of every file of the model.
ReadU16(page, off) == page[off + 1] * 256 + page[off + 2]
ReadU32(page, off) ==
  IF page[off + 1] >= 64 THEN Huge
  ELSE ((page[off + 1] * 256 + page[off + 2]) * 256 + page[off + 3]) * 256 + page[off + 4]

-----------------------------------------------------------------------------
(* btree.go: countRows *)

\* A faulty variant of countRowsHeaderOffset: page 1 treated like any other page.
countRowsHeaderOffset_NoFileHeader(pageNum) == 0
\* countRows: headerOffset.
countRowsHeaderOffset(pageNum) == IF pageNum = 1 THEN 100 ELSE 0

\* countRows: the page number of the i-th (0-based) left child, -1 when the
\* cell pointer or the cell lies outside the page (a slice out of range).
countRowsLeftChild(page, headerOffset, i) ==
  LET offset == headerOffset + 12 + i * 2 IN
  IF offset + 2 > Len(page) THEN -1
  ELSE LET cellPointer == ReadU16(page, offset) IN
       IF cellPointer + 4 > Len(page) THEN -1
       ELSE ReadU32(page, cellPointer)

\* The depth of recursion at which a call is taken never to return.  Go grows
\* the stack of a recursion that does not end until the runtime aborts the
\* program with a stack overflow; no table of the model is this high.
MaxDepth == 5

Counted(n) == [panic |-> FALSE, overflow |-> FALSE, n |-> n]
CountPanic == [panic |-> TRUE, overflow |-> FALSE, n |-> 0]
CountOverflow == [panic |-> FALSE, overflow |-> TRUE, n |-> 0]

RECURSIVE countRowsAt(_, _, _)
\* countRows: the loop over the cells from cell i with totalCount so far,
\* then the rightmost child; depth is the depth of the call on the page.
RECURSIVE countRowsInterior(_, _, _, _, _, _)
countRowsInterior(f, page, headerOffset, i, totalCount, depth) ==
  IF i < ReadU16(page, headerOffset + 3)
  THEN LET left == countRowsLeftChild(page, headerOffset, i) IN
       IF left = -1 THEN CountPanic
       ELSE LET c == countRowsAt(f, left, depth + 1) IN
            IF c.panic \/ c.overflow THEN c
            ELSE countRowsInterior(f, page, headerOffset, i + 1, totalCount + c.n, depth)
  ELSE LET c == countRowsAt(f, ReadU32(page, headerOffset + 8), depth + 1) IN
       IF c.panic \/ c.overflow THEN c ELSE Counted(totalCount + c.n)

\* The call of countRows at the given depth of recursion.
countRowsAt(f, pageNum, depth) ==
  IF depth > MaxDepth THEN CountOverflow
  ELSE IF ~Readable(f, pageNum) THEN Counted(0)
  ELSE LET page == f[pageNum]
           headerOffset == countRowsHeaderOffset(pageNum)
           pageType == page[headerOffset + 1]
       IN IF pageType = 13 THEN Counted(ReadU16(page, headerOffset + 3))
          ELSE IF pageType = 5 THEN countRowsInterior(f, page, headerOffset, 0, 0, depth)
          ELSE Counted(0)

\* countRows(file, pageSize, pageNum) int
countRows(f, pageNum) == countRowsAt(f, pageNum, 1)

-----------------------------------------------------------------------------
(* btree.go: traverseBTree, one step of the recursion per action.  A frame *)
(* [pn, i] is a call on page pn whose loop is at index i; on an interior   *)
(* page i = cellCount is the call on the rightmost child.                  *)

headerOffset(pageNum) == IF pageNum = 1 THEN 100 ELSE 0
pageType(page, pageNum) == page[headerOffset(pageNum) + 1]
cellCount(page, pageNum) == ReadU16(page, headerOffset(pageNum) + 3)

\* Two faulty variants of traverseChild: the rightmost child walked first, and the
\* rightmost child not walked at all.
traverseChild_RightFirst(page, pageNum, i) ==
  LET ho == headerOffset(pageNum) IN
  IF i = 0 THEN ReadU32(page, ho + 8)
  ELSE ReadU32(page, ReadU16(page, ho + 12 + (i - 1) * 2))
traverseChild_NoRight(page, pageNum, i) ==
  LET ho == headerOffset(pageNum) IN
  IF i >= cellCount(page, pageNum) THEN 0
  ELSE ReadU32(page, ReadU16(page, ho + 12 + i * 2))
\* The page the i-th (0-based) recursive call of an interior page is made on:
\* the left child of cell i, then the rightmost pointer; -1 when the cell
\* pointer or the cell lies outside the page.
traverseChild(page, pageNum, i) ==
  LET ho == headerOffset(pageNum) IN
  IF i >= cellCount(page, pageNum) THEN ReadU32(page, ho + 8)
  ELSE LET offset == ho + 12 + i * 2 IN
       IF offset + 2 > Len(page) THEN -1
       ELSE LET cellPointer == ReadU16(page, offset) IN
            IF cellPointer + 4 > Len(page) THEN -1
            ELSE ReadU32(page, cellPointer)

\* The offset of the i-th (0-based) cell of a leaf page, -1 when the pointer
\* lies outside the page.
leafCellPointer(page, pageNum, i) ==
  LET offset == headerOffset(pageNum) + 8 + i * 2 IN
  IF offset + 2 > Len(page) THEN -1 ELSE ReadU16(page, offset)

\* The processor's answer to its k-th invocation: true to continue.
Processor(k) == stopAt = 0 \/ k < stopAt

Top == stack[Len(stack)]
Pop == Take(stack, Len(stack) - 1)
Advance == [stack EXCEPT ![Len(stack)].i = @ + 1]
TopPage == file[Top.pn]
Frame(pageNum) == [pn |-> pageNum, i |-> 0]

Expected(t) == [r \in 1..NumRows(t) |-> RowId(r)]

Init ==
  /\ tree \in Shapes
  /\ \E r \in {1, 2}, s \in 0..MaxStop,
        d \in {"none", "badtype", "short", "selfright", "selfleft"} :
       /\ (d # "none" \/ r = 1) => s = 0
       /\ d # "none" => r = 2
       /\ d \in {"selfright", "selfleft"} => Len(tree.kids) >= 2
       /\ root = r /\ stopAt = s /\ corrupt = d
       /\ file = MakeFile(tree, r, d)
  /\ stack = <<>>
  /\ visited = <<>>
  /\ count = -1
  /\ pc = "count"
  /\ vin = <<>>
  /\ vout = <<>>

Keep == UNCHANGED <<file, root, tree, corrupt, stopAt, vin, vout>>

\* SELECT COUNT(*): countRows on the root page; then a SELECT of the rows
\* calls traverseBTree on it.
CountRowsCall ==
  /\ pc = "count"
  /\ LET c == countRows(file, root) IN
       IF c.panic THEN pc' = "panic" /\ count' = count /\ stack' = stack
       ELSE IF c.overflow THEN pc' = "overflow" /\ count' = count /\ stack' = stack
       ELSE pc' = "traverse" /\ count' = c.n /\ stack' = <<Frame(root)>>
  /\ UNCHANGED visited
  /\ Keep

Walking == pc = "traverse" /\ stack # <<>>

\* The page of the call cannot be read: the call returns.
TraverseUnreadable ==
  /\ Walking
  /\ ~Readable(file, Top.pn)
  /\ stack' = Pop
  /\ UNCHANGED <<visited, count, pc>>
  /\ Keep

\* A leaf page, cell i: the record is parsed and the processor invoked; the
\* call returns when the processor says stop.
TraverseLeafCell ==
  /\ Walking
  /\ Readable(file, Top.pn)
  /\ pageType(TopPage, Top.pn) = 13
  /\ Top.i < cellCount(TopPage, Top.pn)
  /\ LET cellPointer == leafCellPointer(TopPage, Top.pn, Top.i)
         rec == IF cellPointer = -1 \/ cellPointer > Len(TopPage) THEN RecordPanic
                ELSE parseRecord(Drop(TopPage, cellPointer))
     IN IF rec.panic
        THEN pc' = "panic" /\ UNCHANGED <<stack, visited>>
        ELSE /\ pc' = pc
             /\ IF rec.err = "nil"
                THEN /\ visited' = Append(visited, [rowid |-> rec.rowid, cols |-> rec.columnValues])
                     /\ stack' = IF Processor(Len(visited) + 1) THEN Advance ELSE Pop
                ELSE visited' = visited /\ stack' = Advance
  /\ UNCHANGED count
  /\ Keep

\* A leaf page, past its last cell: the call returns.
TraverseLeafEnd ==
  /\ Walking
  /\ Readable(file, Top.pn)
  /\ pageType(TopPage, Top.pn) = 13
  /\ Top.i >= cellCount(TopPage, Top.pn)
  /\ stack' = Pop
  /\ UNCHANGED <<visited, count, pc>>
  /\ Keep

\* An interior page: the recursive call on the left child of cell i, or,
\* after the last cell, on the rightmost child.
TraverseChild ==
  /\ Walking
  /\ Readable(file, Top.pn)
  /\ pageType(TopPage, Top.pn) = 5
  /\ Top.i <= cellCount(TopPage, Top.pn)
  /\ Len(stack) < MaxDepth
  /\ LET child == traverseChild(TopPage, Top.pn, Top.i) IN
       IF child = -1
       THEN pc' = "panic" /\ stack' = stack
       ELSE pc' = pc /\ stack' = Append(Advance, Frame(child))
  /\ UNCHANGED <<visited, count>>
  /\ Keep

\* The recursive call that takes the recursion beyond MaxDepth.
TraverseOverflow ==
  /\ Walking
  /\ Readable(file, Top.pn)
  /\ pageType(TopPage, Top.pn) = 5
  /\ Top.i <= cellCount(TopPage, Top.pn)
  /\ Len(stack) >= MaxDepth
  /\ traverseChild(TopPage, Top.pn, Top.i) # -1
  /\ pc' = "overflow"
  /\ UNCHANGED <<stack, visited, count>>
  /\ Keep

\* An interior page, after the call on the rightmost child: the call returns.
TraverseInteriorEnd ==
  /\ Walking
  /\ Readable(file, Top.pn)
  /\ pageType(TopPage, Top.pn) = 5
  /\ Top.i > cellCount(TopPage, Top.pn)
  /\ stack' = Pop
  /\ UNCHANGED <<visited, count, pc>>
  /\ Keep

\* A page that is neither a table leaf nor a table interior page: the call
\* returns.
TraverseOtherType ==
  /\ Walking
  /\ Readable(file, Top.pn)
  /\ pageType(TopPage, Top.pn) \notin {5, 13}
  /\ stack' = Pop
  /\ UNCHANGED <<visited, count, pc>>
  /\ Keep

\* The call on the root page has returned.
TraverseReturn ==
  /\ pc = "traverse" /\ stack = <<>>
  /\ pc' = "done"
  /\ UNCHANGED <<stack, visited, count>>
  /\ Keep

Next ==
  \/ CountRowsCall
  \/ TraverseUnreadable
  \/ TraverseLeafCell
  \/ TraverseLeafEnd
  \/ TraverseChild
  \/ TraverseInteriorEnd
  \/ TraverseOtherType
  \/ TraverseReturn

Spec == Init /\ [][Next]_vars

Rowids(v) == [k \in 1..Len(v) |-> v[k].rowid]
Intact == corrupt = "none"

\* C1: on a tree of valid pages countRows(root) equals the number of
\* invocations of an always-continuing processor by traverseBTree(root).
C1_CountEqualsVisits ==
  (pc = "done" /\ Intact /\ stopAt = 0) => count = Len(visited)

\* C1's case: both ran on a tree of three levels with rows.
C1_Witness ==
  /\ pc = "done" /\ Intact /\ stopAt = 0
  /\ tree \in DeepShapes
  /\ count >= 3 /\ Len(visited) >= 3

\* C2: under an interior root with two or more leaf children the walk visits
\* every cell of every leaf exactly once, and countRows is the sum of the
\* leaves' cell counts.
C2_MultiLevelComplete ==
  (pc = "done" /\ Intact /\ stopAt = 0 /\ IsFlat(tree) /\ Len(tree.kids) >= 2) =>
     /\ Rowids(visited) = Expected(tree)
     /\ \A k \in 1..Len(visited) :
          visited[k].cols = << <<>>, readColumnValue(RowCols(k)[2].d, 1).str,
                               RowCols(k)[3].d >>
     /\ count = NumRowsOf(tree.kids, Len(tree.kids))

\* C2's case: an interior root on page 1 with two leaves of two rows each.
C2_Witness ==
  /\ pc = "done" /\ Intact /\ stopAt = 0
  /\ root = 1
  /\ tree = Interior(<<Leaf(2), Leaf(2)>>)
  /\ Len(visited) = 4

\* C3: left children are walked in cell-pointer order and the rightmost child
\* last, and a leaf's cells in cell-pointer order: at every moment an
\* always-continuing processor has seen an initial part of the rows in key
\* order, and the rowids any processor has seen ascend strictly.
C3_AscendingRowids ==
  Intact =>
     /\ stopAt = 0 =>
          /\ Len(visited) <= NumRows(tree)
          /\ Rowids(visited) = Take(Expected(tree), Len(visited))
     /\ \A j, k \in 1..Len(visited) :
          j < k => U64Less(visited[j].rowid, visited[k].rowid)

\* C3's case: the walk is in the rightmost child of a root whose left
\* subtree also had rows, with rowids on both sides of 127.
C3_Witness ==
  /\ pc = "traverse" /\ Intact /\ stopAt = 0
  /\ Len(stack) >= 2
  /\ stack[1].i = cellCount(file[root], root) + 1
  /\ Len(tree.kids) = 2
  /\ NumRows(tree.kids[1]) >= 2
  /\ Len(visited) > NumRows(tree.kids[1])

\* C4: once the processor has returned false it is not invoked again.
C4_NoVisitAfterStop ==
  stopAt > 0 => Len(visited) <= stopAt

-----------------------------------------------------------------------------
(* schema.go: findTableInfo.  Strings are sequences of bytes. *)

\* int(x) of a uint64: negative when the top bit is set.
IntOfU64(x) == IF x[1] = 1 THEN -1 ELSE SatInt(x)

Found(rootpage, sql) == [kind |-> "ok", rootpage |-> rootpage, sql |-> sql]
NotFound == Found(0, <<>>)
SchemaPanic == [kind |-> "panic", rootpage |-> 0, sql |-> <<>>]
SchemaHang == [kind |-> "hang", rootpage |-> 0, sql |-> <<>>]

\* The state of the loop `for headerBytesRead < int(headerSize)`: the offset in
\* the page cellData starts at, headerBytesRead, and the serial types so far.
\* One iteration appends the varint read, also one of zero bytes: then the
\* loop makes no progress and never ends (hang).  A state the loop has left
\* is not changed.
schemaHeaderDone(headerSize, s) == s.hang \/ s.headerBytesRead >= headerSize

schemaHeaderStep(page, headerSize, s) ==
  IF schemaHeaderDone(headerSize, s) THEN s
  ELSE LET r == readVarint(Drop(page, s.at))
       IN IF r.n = 0 THEN [s EXCEPT !.hang = TRUE]
          ELSE [hang |-> FALSE, at |-> s.at + r.n,
                headerBytesRead |-> s.headerBytesRead + r.n,
                serialTypes |-> Append(s.serialTypes, SatInt(r.value))]

\* Eight iterations at once keep the evaluation of a long header shallow.
schemaHeaderStep2(page, headerSize, s) ==
  schemaHeaderStep(page, headerSize, schemaHeaderStep(page, headerSize, s))
schemaHeaderStep4(page, headerSize, s) ==
  schemaHeaderStep2(page, headerSize, schemaHeaderStep2(page, headerSize, s))
schemaHeaderStep8(page, headerSize, s) ==
  schemaHeaderStep4(page, headerSize, schemaHeaderStep4(page, headerSize, s))

RECURSIVE schemaSerialTypes(_, _, _)
schemaSerialTypes(page, headerSize, s) ==
  IF schemaHeaderDone(headerSize, s) THEN s
  ELSE schemaSerialTypes(page, headerSize, schemaHeaderStep8(page, headerSize, s))

\* The rootpage column as findTableInfo reads it.
rootpageValue(cellData, serialType) == cellData[1]

\* The comparison that selects the schema row.
tblNameMatches(tblName, tableName) == tblName = tableName

\* One iteration of the loop over the cell pointers: "match" with the result,
\* "next" to go on with the following cell.
findTableInfoCell(page, cellOffset, tableName) ==
  LET c0 == Drop(page, cellOffset)
      c1 == Drop(c0, readVarint(c0).n)
      c2 == Drop(c1, readVarint(c1).n)
      hdr == readVarint(c2)
      h == schemaSerialTypes(page, IntOfU64(hdr.value),
                             [hang |-> FALSE, at |-> Len(page) - Len(c2) + hdr.n,
                              headerBytesRead |-> hdr.n, serialTypes |-> <<>>])
      st == h.serialTypes
      typeSize == getSerialTypeSize(st[1])
      nameSize == getSerialTypeSize(st[2])
      tblNameSize == getSerialTypeSize(st[3])
      body == Drop(page, h.at)
      atTbl == Drop(body, typeSize + nameSize)
      tblName == Take(atTbl, tblNameSize)
      atRoot == Drop(atTbl, tblNameSize)
      atSql == Drop(atRoot, 1)
  IN IF cellOffset > Len(page) THEN SchemaPanic
     ELSE IF h.hang THEN SchemaHang
     ELSE IF Len(st) < 1 \/ typeSize > Len(body) THEN SchemaPanic
     ELSE IF Len(st) < 2 \/ typeSize + nameSize > Len(body) THEN SchemaPanic
     ELSE IF Len(st) < 3 \/ tblNameSize > Len(atTbl) THEN SchemaPanic
     ELSE IF ~tblNameMatches(tblName, tableName)
          THEN [kind |-> "next", rootpage |-> 0, sql |-> <<>>]
     ELSE IF atRoot = <<>> THEN SchemaPanic
     ELSE IF Len(st) < 5 \/ getSerialTypeSize(st[5]) > Len(atSql) THEN SchemaPanic
     ELSE Found(rootpageValue(atRoot, st[4]), Take(atSql, getSerialTypeSize(st[5])))

RECURSIVE findTableInfoFrom(_, _, _, _)
findTableInfoFrom(page, i, nCells, tableName) ==
  IF i >= nCells THEN NotFound
  ELSE LET r == findTableInfoCell(page, ReadU16(page, 108 + i * 2), tableName)
       IN IF r.kind = "next" THEN findTableInfoFrom(page, i + 1, nCells, tableName)
          ELSE r

\* The cell count is read at offset 103 and the cell pointers from offset 108,
\* all of them before the first cell is parsed.
findTableInfo(page, tableName) ==
  IF Len(page) < 105 THEN SchemaPanic
  ELSE LET nCells == ReadU16(page, 103)
       IN IF 108 + 2 * nCells > Len(page) THEN SchemaPanic
          ELSE findTableInfoFrom(page, 0, nCells, tableName)

-----------------------------------------------------------------------------
(* Specification of the catalog lookup *)

MaxSchemaRows == 2

TextCol(s) == [t |-> 13 + 2 * Len(s), d |-> s]

\* Rows of sqlite_schema, each [tbl, root, rootT, sql]: the tbl_name text, the
\* root page number, the serial type it is stored with, and the sql column.
\* Table "t", table "T", an index on "t" (sql NULL), tables "u" and "v" whose
\* root page numbers (200 and 300) need two bytes, and table "tt".
SchemaRowPool ==
  { [tbl |-> <<116>>, root |-> 2, rootT |-> 1, sql |-> TextCol(<<40, 49>>)],
    [tbl |-> <<84>>, root |-> 3, rootT |-> 1, sql |-> TextCol(<<40, 50>>)],
    [tbl |-> <<116>>, root |-> 4, rootT |-> 1, sql |-> [t |-> 0, d |-> <<>>]],
    [tbl |-> <<117>>, root |-> 200, rootT |-> 2, sql |-> TextCol(<<40, 51>>)],
    [tbl |-> <<118>>, root |-> 300, rootT |-> 2, sql |-> TextCol(<<40, 53>>)],
    [tbl |-> <<116, 116>>, root |-> 5, rootT |-> 1, sql |-> TextCol(<<40, 52>>)] }

TableNames == {<<116>>, <<84>>, <<117>>, <<118>>, <<116, 116>>, <<120>>}

SchemaCell(rowid, row) ==
  LeafCell(U64(rowid),
           << TextCol(<<116>>), TextCol(<<110>>), TextCol(row.tbl),
              [t |-> row.rootT,
               d |-> IF row.rootT = 1 THEN <<row.root>> ELSE U16BE(row.root)],
              row.sql >>)

SchemaCells(rows, from, to) ==
  [i \in 1..(to - from + 1) |-> SchemaCell(from + i - 1, rows[from + i - 1])]

\* The pages of the schema table.  "leaf": page 1 is a leaf with every row.
\* "interior": page 1 is an interior page whose left child, page 2, holds the
\* first row and whose rightmost child, page 3, holds the others.
SchemaPages(rows, layout) ==
  IF layout = "leaf"
  THEN << MakePage(1, 13, SchemaCells(rows, 1, Len(rows)), 0) >>
  ELSE << MakePage(1, 5, << U32BE(2) \o EncodeVarint(U64(1)) >>, 3),
          MakePage(2, 13, SchemaCells(rows, 1, 1), 0),
          MakePage(3, 13, SchemaCells(rows, 2, Len(rows)), 0) >>

SchemaInit ==
  /\ NoBTree
  /\ pc = "call"
  /\ vout = <<>>
  /\ \E n \in 0..MaxSchemaRows, layout \in {"leaf", "interior"} :
       \E rows \in [1..n -> SchemaRowPool], name \in TableNames :
          /\ layout = "interior" => n >= 2
          /\ vin = [op |-> "schema", rows |-> rows, layout |-> layout,
                    name |-> name, pages |-> SchemaPages(rows, layout)]

\* handleSQLQuery reads page 1 and hands it to findTableInfo.
CallFindTableInfo ==
  /\ pc = "call" /\ vin.op = "schema"
  /\ vout' = findTableInfo(vin.pages[1], vin.name)
  /\ pc' = "done"
  /\ UNCHANGED vin
  /\ BTreeUnchanged

SchemaNext == CallFindTableInfo

SchemaSpec == SchemaInit /\ [][SchemaNext]_vars

Matching(rows, name) == {i \in 1..Len(rows) : rows[i].tbl = name}

FirstMatching(rows, name) ==
  CHOOSE i \in Matching(rows, name) : \A j \in Matching(rows, name) : i <= j

ExpectedInfo(rows, name) ==
  IF Matching(rows, name) = {} THEN NotFound
  ELSE Found(rows[FirstMatching(rows, name)].root,
             rows[FirstMatching(rows, name)].sql.d)

\* C12: on a schema page, findTableInfo returns the rootpage and sql of the
\* first row, in cell-pointer order, whose tbl_name equals the requested name
\* byte for byte, and (0, "") exactly when there is no such row.
C12_FirstMatchingRow ==
  (pc = "done" /\ vin.op = "schema" /\ vin.layout = "leaf") =>
     vout = ExpectedInfo(vin.rows, vin.name)

\* The same for schema rows whose root page number is stored in one byte.
C12_OneByteRootpage ==
  (pc = "done" /\ vin.op = "schema" /\ vin.layout = "leaf"
     /\ \A i \in 1..Len(vin.rows) : vin.rows[i].rootT = 1) =>
     vout = ExpectedInfo(vin.rows, vin.name)

\* C22: for a matching schema row the rootpage returned is the value of the
\* row's rootpage column, whatever the width it is stored with.
C22_RootpageBySerialType ==
  (pc = "done" /\ vin.op = "schema" /\ vin.layout = "leaf"
     /\ Matching(vin.rows, vin.name) # {}) =>
     /\ vout.kind = "ok"
     /\ vout.rootpage = vin.rows[FirstMatching(vin.rows, vin.name)].root

\* C13: when page 1 is an interior page and the requested table's schema row
\* lies on a child page, the lookup finds that row.
C13_SchemaOnChildPages ==
  (pc = "done" /\ vin.op = "schema" /\ vin.layout = "interior") =>
     vout = ExpectedInfo(vin.rows, vin.name)

-----------------------------------------------------------------------------
(* Go's strings package, on sequences of ASCII bytes.  Offsets are 0-based *)
(* as in the code; -1 is "not found".                                      *)

MinOf(S) == CHOOSE x \in S : \A y \in S : x <= y
MaxOf(S) == CHOOSE x \in S : \A y \in S : x >= y

\* The offsets at which substr occurs in s.
Occurrences(s, substr) ==
  {i \in 0..(Len(s) - Len(substr)) : SubSeq(s, i + 1, i + Len(substr)) = substr}

Index(s, substr) ==
  IF Occurrences(s, substr) = {} THEN -1 ELSE MinOf(Occurrences(s, substr))
LastIndex(s, substr) ==
  IF Occurrences(s, substr) = {} THEN -1 ELSE MaxOf(Occurrences(s, substr))
Contains(s, substr) == Index(s, substr) >= 0

LowerByte(c) == IF c \in 65..90 THEN c + 32 ELSE c
ToLower(s) == [i \in 1..Len(s) |-> LowerByte(s[i])]
EqualFold_CaseSensitive(s, t) == s = t
EqualFold(s, t) == ToLower(s) = ToLower(t)

\* strings.Split(s, sep) for a one-byte separator: the pieces between the
\* occurrences of sep, one more than there are occurrences.
SepAt(s, sep) == {i \in 1..Len(s) : s[i] = sep}
NthSep(s, sep, k) ==
  CHOOSE p \in SepAt(s, sep) : Cardinality({q \in SepAt(s, sep) : q <= p}) = k
Split(s, sep) ==
  LET n == Cardinality(SepAt(s, sep))
  IN [k \in 1..(n + 1) |->
        SubSeq(s, IF k = 1 THEN 1 ELSE NthSep(s, sep, k - 1) + 1,
                  IF k = n + 1 THEN Len(s) ELSE NthSep(s, sep, k) - 1)]

IsSpace(c) == c \in {9, 10, 11, 12, 13, 32}
NonSpaceAt(s) == {i \in 1..Len(s) : ~IsSpace(s[i])}
TrimSpace(s) ==
  IF NonSpaceAt(s) = {} THEN <<>>
  ELSE SubSeq(s, MinOf(NonSpaceAt(s)), MaxOf(NonSpaceAt(s)))

\* strings.Fields(s)[0], the first maximal run of non-space bytes; <<>> when
\* Fields(s) is empty.
FirstField(s) ==
  IF NonSpaceAt(s) = {} THEN <<>>
  ELSE LET from == MinOf(NonSpaceAt(s))
           spaces == {i \in from..Len(s) : IsSpace(s[i])}
       IN SubSeq(s, from, IF spaces = {} THEN Len(s) ELSE MinOf(spaces) - 1)

-----------------------------------------------------------------------------
(* schema.go: getColumnIndex and isIntegerPrimaryKey *)

ColumnIndex(i) == [panic |-> FALSE, index |-> i]
ColumnIndexPanic == [panic |-> TRUE, index |-> -1]

\* The segments whose first word is the column name, 1-based.
columnHits(columns, columnName) ==
  {i \in 1..Len(columns) :
     /\ FirstField(TrimSpace(columns[i])) # <<>>
     /\ EqualFold(FirstField(TrimSpace(columns[i])), columnName)}

getColumnIndex(createTableSQL, columnName) ==
  LET startIdx == Index(createTableSQL, <<40>>)
      endIdx == LastIndex(createTableSQL, <<41>>)
  IN IF startIdx = -1 THEN ColumnIndex(-1)
     ELSE IF endIdx = -1 THEN ColumnIndex(-1)
     ELSE IF startIdx + 1 > endIdx THEN ColumnIndexPanic
     ELSE LET columnsStr == SubSeq(createTableSQL, startIdx + 2, endIdx)
              hits == columnHits(Split(columnsStr, 44), columnName)
          IN IF hits = {} THEN ColumnIndex(-1) ELSE ColumnIndex(MinOf(hits) - 1)

\* " integer primary key"
IntegerPrimaryKeySuffix ==
  <<32, 105, 110, 116, 101, 103, 101, 114, 32, 112, 114, 105, 109, 97, 114, 121,
    32, 107, 101, 121>>

isIntegerPrimaryKey(createTableSQL, columnName) ==
  Contains(ToLower(createTableSQL), ToLower(columnName) \o IntegerPrimaryKeySuffix)

-----------------------------------------------------------------------------
(* Specification of the column resolver *)

MaxSqlCols == 2

\* Column names: "id", "d", "name", "Tag".
ColumnNames == {<<105, 100>>, <<100>>, <<110, 97, 109, 101>>, <<84, 97, 103>>}

\* Declared types: "INTEGER PRIMARY KEY" and "integer primary key" (the rowid
\* alias), "TEXT", "integer", "DECIMAL(10,2)".
ColumnTypes ==
  { [pk |-> TRUE, text |-> <<73, 78, 84, 69, 71, 69, 82, 32, 80, 82, 73, 77, 65,
                            82, 89, 32, 75, 69, 89>>],
    [pk |-> TRUE, text |-> <<105, 110, 116, 101, 103, 101, 114, 32, 112, 114, 105,
                            109, 97, 114, 121, 32, 107, 101, 121>>],
    [pk |-> FALSE, text |-> <<84, 69, 88, 84>>],
    [pk |-> FALSE, text |-> <<105, 110, 116, 101, 103, 101, 114>>],
    [pk |-> FALSE, text |-> <<68, 69, 67, 73, 77, 65, 76, 40, 49, 48, 44, 50, 41>>] }

\* Column lists of a table: distinct names, at most one INTEGER PRIMARY KEY.
TableColumns ==
  UNION { { defs \in [1..n -> [name : ColumnNames, type : ColumnTypes]] :
              /\ \A i, j \in 1..n : i # j => defs[i].name # defs[j].name
              /\ \A i, j \in 1..n : (defs[i].type.pk /\ defs[j].type.pk) => i = j }
          : n \in 1..MaxSqlCols }

\* "CREATE TABLE t (" <name> " " <type> { <sep> <name> " " <type> } ")"
CreateTableSQL(defs, sep) ==
  <<67, 82, 69, 65, 84, 69, 32, 84, 65, 66, 76, 69, 32, 116, 32, 40>>
    \o Concat([i \in 1..Len(defs) |->
                 (IF i = 1 THEN <<>> ELSE sep)
                   \o defs[i].name \o <<32>> \o defs[i].type.text])
    \o <<41>>

\* Names asked for: "id", "ID", "d", "name", "NAME", "Tag", "x".
AskedNames ==
  {<<105, 100>>, <<73, 68>>, <<100>>, <<110, 97, 109, 101>>, <<78, 65, 77, 69>>,
   <<84, 97, 103>>, <<120>>}

ResolverInit ==
  /\ NoBTree
  /\ pc = "call"
  /\ vout = <<>>
  /\ \E defs \in TableColumns, sep \in {<<44>>, <<44, 32>>}, name \in AskedNames :
       vin = [op |-> "resolve", defs |-> defs, name |-> name,
              sql |-> CreateTableSQL(defs, sep)]

CallGetColumnIndex ==
  /\ pc = "call" /\ vin.op = "resolve"
  /\ vout' = [op |-> "index", r |-> getColumnIndex(vin.sql, vin.name)]
  /\ pc' = "done"
  /\ UNCHANGED vin
  /\ BTreeUnchanged

CallIsIntegerPrimaryKey ==
  /\ pc = "call" /\ vin.op = "resolve"
  /\ vout' = [op |-> "pk", r |-> isIntegerPrimaryKey(vin.sql, vin.name)]
  /\ pc' = "done"
  /\ UNCHANGED vin
  /\ BTreeUnchanged

ResolverNext == CallGetColumnIndex \/ CallIsIntegerPrimaryKey

ResolverSpec == ResolverInit /\ [][ResolverNext]_vars

\* The columns of defs named name, case-insensitively.
Named(defs, name) == {j \in 1..Len(defs) : ToLower(defs[j].name) = ToLower(name)}

CommasIn(s) == Cardinality({i \in 1..Len(s) : s[i] = 44})

RECURSIVE CommasBefore(_, _)
CommasBefore(defs, j) ==
  IF j = 1 THEN 0
  ELSE CommasBefore(defs, j - 1) + 1 + CommasIn(defs[j - 1].type.text)

\* C14: getColumnIndex returns the zero-based position, among the
\* comma-separated segments between the first "(" and the last ")", of the
\* first segment whose first word is the asked name in any letter case: the
\* number of commas before that column's definition; and -1 when there is none.
C14_ColumnIndex ==
  (pc = "done" /\ vin.op = "resolve" /\ vout.op = "index") =>
     /\ ~vout.r.panic
     /\ vout.r.index = IF Named(vin.defs, vin.name) = {} THEN -1
                       ELSE CommasBefore(vin.defs, MinOf(Named(vin.defs, vin.name)))

\* C14's example: in "CREATE TABLE t (id INTEGER PRIMARY KEY, name TEXT)" the
\* index of "name" is 1.
C14_Witness ==
  /\ pc = "done" /\ vin.op = "resolve" /\ vout.op = "index"
  /\ vin.sql = <<67, 82, 69, 65, 84, 69, 32, 84, 65, 66, 76, 69, 32, 116, 32, 40,
                 105, 100, 32, 73, 78, 84, 69, 71, 69, 82, 32, 80, 82, 73, 77, 65,
                 82, 89, 32, 75, 69, 89, 44, 32, 110, 97, 109, 101, 32, 84, 69, 88,
                 84, 41>>
  /\ vin.name = <<110, 97, 109, 101>>
  /\ vout.r = ColumnIndex(1)

\* C15: isIntegerPrimaryKey is true for the column declared
\* <name> INTEGER PRIMARY KEY and false for every other column of the table.
C15_OnlyDeclaredKey ==
  (pc = "done" /\ vin.op = "resolve" /\ vout.op = "pk") =>
     \A j \in 1..Len(vin.defs) :
        vin.defs[j].name = vin.name => (vout.r <=> vin.defs[j].type.pk)

-----------------------------------------------------------------------------
(* main.go: handleSQLQuery, and btree.go: selectRows.  A query is            *)
(* [columnNames, where, sql]: the selected expressions and the WHERE         *)
(* expression as the SQL parser returns them, and the table's CREATE TABLE   *)
(* text.  where is [kind, operator, left, right] with kind "none" (no WHERE  *)
(* clause), "comparison", "and" or "or"; left and right are SQL text.        *)

\* strings.Trim(s, cutset)
Trim(s, cutset) ==
  LET keep == {i \in 1..Len(s) : s[i] \notin cutset}
  IN IF keep = {} THEN <<>> ELSE SubSeq(s, MinOf(keep), MaxOf(keep))

\* hasWhere is set only for a comparison with operator "="; any other WHERE
\* expression leaves it false.
hasWhere(q) == q.where.kind = "comparison" /\ q.where.operator = "="
whereColumn(q) == IF hasWhere(q) THEN q.where.left ELSE <<>>
whereValue(q) == IF hasWhere(q) THEN Trim(q.where.right, {39, 34}) ELSE <<>>

columnIndices(q) ==
  [i \in 1..Len(q.columnNames) |-> getColumnIndex(q.sql, q.columnNames[i])]
whereColumnIndex(q) ==
  IF hasWhere(q) THEN getColumnIndex(q.sql, whereColumn(q)) ELSE ColumnIndex(-1)

\* What handleSQLQuery does before the traversal: "panic", "exit" (a column
\* that is not found: message and os.Exit(1)) or "traverse".
resolveColumns(q) ==
  IF \E i \in 1..Len(q.columnNames) : columnIndices(q)[i].panic THEN "panic"
  ELSE IF \E i \in 1..Len(q.columnNames) : columnIndices(q)[i].index = -1 THEN "exit"
  ELSE IF whereColumnIndex(q).panic THEN "panic"
  ELSE IF hasWhere(q) /\ whereColumnIndex(q).index = -1 THEN "exit"
  ELSE "traverse"

isPKColumn(q) ==
  [i \in 1..Len(q.columnNames) |-> isIntegerPrimaryKey(q.sql, q.columnNames[i])]

\* strings.Join(elems, sep)
Join(elems, sep) ==
  Concat([i \in 1..Len(elems) |-> (IF i = 1 THEN <<>> ELSE sep) \o elems[i]])

\* The WHERE test of the processor: allColumnValues[whereColumnIndex] != whereValue
whereMatches_IgnoreCase(value, literal) == ToLower(value) = ToLower(literal)
whereMatches(value, literal) == value = literal

\* One projected field: the rowid in decimal for a column flagged as INTEGER
\* PRIMARY KEY, else the value at the column's index.
selectField_StoredValue(rowid, allColumnValues, isPK, colIndex) ==
  allColumnValues[colIndex + 1]
selectField(rowid, allColumnValues, isPK, colIndex) ==
  IF isPK THEN FormatUint(rowid) ELSE allColumnValues[colIndex + 1]

\* The processor of selectRows: the lines it prints for one row (none or
\* one); it always returns true.  An index beyond the row's columns panics.
selectProcessor(q, rowid, allColumnValues) ==
  LET n == Len(allColumnValues)
      wi == whereColumnIndex(q).index
      ci == columnIndices(q)
      pk == isPKColumn(q)
  IN IF hasWhere(q) /\ wi >= n THEN [panic |-> TRUE, lines |-> <<>>]
     ELSE IF hasWhere(q) /\ ~whereMatches(allColumnValues[wi + 1], whereValue(q))
          THEN [panic |-> FALSE, lines |-> <<>>]
     ELSE IF \E i \in 1..Len(ci) : ~pk[i] /\ ci[i].index >= n
          THEN [panic |-> TRUE, lines |-> <<>>]
     ELSE [panic |-> FALSE,
           lines |-> << Join([i \in 1..Len(ci) |->
                               selectField(rowid, allColumnValues, pk[i], ci[i].index)],
                             <<124>>) >>]

-----------------------------------------------------------------------------
(* Specification of SELECT <columns> FROM t [WHERE ...] *)

MaxProjection == 2

\* Table t's columns "id", "n", "c" and its CREATE TABLE text.
TableT ==
  << [name |-> <<105, 100>>,
      type |-> [pk |-> TRUE, text |-> <<105, 110, 116, 101, 103, 101, 114, 32, 112,
                                        114, 105, 109, 97, 114, 121, 32, 107, 101,
                                        121>>]],
     [name |-> <<110>>, type |-> [pk |-> FALSE, text |-> <<105, 110, 116, 101, 103, 101, 114>>]],
     [name |-> <<99>>, type |-> [pk |-> FALSE, text |-> <<84, 69, 88, 84>>]] >>

TableTSQL == CreateTableSQL(TableT, <<44, 32>>)

\* Selected column lists: "id", "n", "c" in any order and number, and the
\* lists ("C", "id") and ("x").
Projections ==
  UNION {[1..k -> {<<105, 100>>, <<110>>, <<99>>}] : k \in 1..MaxProjection}
    \cup { << <<67>>, <<105, 100>> >>, << <<120>> >> }

\* A WHERE expression; lit is the value of the literal whose SQL text is right.
NoWhere == [kind |-> "none", operator |-> "", left |-> <<>>, right |-> <<>>, lit |-> <<>>]
Comparison(op, left, quote, lit) ==
  [kind |-> "comparison", operator |-> op, left |-> left,
   right |-> quote \o lit \o quote, lit |-> lit]
Connective(kind) ==
  [kind |-> kind, operator |-> "", left |-> <<>>, right |-> <<>>, lit |-> <<>>]

\* c = 'B', c = 'b', C = "A", n = -127, id = '', id = <rowid of the first
\* row>, x = 'A'; c < 'B', c != 'A'; a conjunction and a disjunction.
Wheres ==
  { NoWhere,
    Comparison("=", <<99>>, <<39>>, <<66>>),
    Comparison("=", <<99>>, <<39>>, <<98>>),
    Comparison("=", <<67>>, <<34>>, <<65>>),
    Comparison("=", <<110>>, <<>>, <<45, 49, 50, 55>>),
    Comparison("=", <<105, 100>>, <<39>>, <<>>),
    Comparison("=", <<105, 100>>, <<>>, DecText(NatDigits(RowidBase + 1))),
    Comparison("=", <<120>>, <<39>>, <<65>>),
    Comparison("<", <<99>>, <<39>>, <<66>>),
    Comparison("!=", <<99>>, <<39>>, <<65>>),
    Connective("and"),
    Connective("or") }

SelectShapes ==
  { Leaf(MaxCells), Interior(<<Leaf(1), Leaf(MaxCells)>>),
    Interior(<<Leaf(MaxCells), Leaf(0), Leaf(1)>>) }

\* A table of one leaf whose last row stores only its first two columns, as a
\* row written before the third column was added to the table does.
FewColumnsFile ==
  << SchemaPage,
     MakePage(2, 13, [i \in 1..MaxCells |->
                        LeafCell(RowId(i), IF i = MaxCells THEN Take(RowCols(i), 2)
                                           ELSE RowCols(i))], 0) >>

SelectInit ==
  /\ tree \in SelectShapes
  /\ root = 2 /\ stopAt = 0
  /\ corrupt \in {"none", "badtype", "short", "fewcolumns", "selfright", "selfleft"}
  /\ corrupt \in {"badtype", "short", "selfright", "selfleft"} =>
       tree = Interior(<<Leaf(1), Leaf(MaxCells)>>)
  /\ corrupt = "fewcolumns" => tree = Leaf(MaxCells)
  /\ file = IF corrupt = "fewcolumns" THEN FewColumnsFile ELSE MakeFile(tree, 2, corrupt)
  /\ stack = <<>>
  /\ visited = <<>>
  /\ count = -1
  /\ pc = "query"
  /\ \E names \in Projections, w \in Wheres :
       /\ \/ w \in {NoWhere, Comparison("=", <<99>>, <<39>>, <<66>>)}
          \/ names \in {<< <<105, 100>> >>, << <<99>>, <<110>> >>}
       /\ corrupt \in {"badtype", "short", "selfright", "selfleft"} => w = NoWhere
       /\ vin = [op |-> "select", columnNames |-> names, where |-> w, sql |-> TableTSQL]
  /\ vout = <<>>

\* handleSQLQuery up to the call of the traversal.
HandleSQLQuery ==
  /\ pc = "query"
  /\ pc' = resolveColumns(vin)
  /\ stack' = IF resolveColumns(vin) = "traverse" THEN <<Frame(root)>> ELSE stack
  /\ UNCHANGED <<visited, count>>
  /\ Keep

\* traverseBTree at a cell of a leaf, with the processor of selectRows.
SelectLeafCell ==
  /\ Walking
  /\ Readable(file, Top.pn)
  /\ pageType(TopPage, Top.pn) = 13
  /\ Top.i < cellCount(TopPage, Top.pn)
  /\ LET cellPointer == leafCellPointer(TopPage, Top.pn, Top.i)
         rec == IF cellPointer = -1 \/ cellPointer > Len(TopPage) THEN RecordPanic
                ELSE parseRecord(Drop(TopPage, cellPointer))
         p == selectProcessor(vin, rec.rowid, rec.columnValues)
     IN IF rec.panic \/ (rec.err = "nil" /\ p.panic)
        THEN pc' = "panic" /\ UNCHANGED <<stack, visited, vout>>
        ELSE /\ pc' = pc
             /\ stack' = Advance
             /\ IF rec.err = "nil"
                THEN /\ visited' = Append(visited, [rowid |-> rec.rowid, cols |-> rec.columnValues])
                     /\ vout' = vout \o p.lines
                ELSE UNCHANGED <<visited, vout>>
  /\ UNCHANGED <<file, root, tree, corrupt, stopAt, vin, count>>

SelectNext ==
  \/ HandleSQLQuery
  \/ TraverseUnreadable
  \/ SelectLeafCell
  \/ TraverseLeafEnd
  \/ TraverseChild
  \/ TraverseOverflow
  \/ TraverseInteriorEnd
  \/ TraverseOtherType
  \/ TraverseReturn

SelectSpec == SelectInit /\ [][SelectNext]_vars

\* The zero-based position in table t of the column called name.
TableTIndex(name) ==
  (CHOOSE j \in 1..Len(TableT) : ToLower(TableT[j].name) = ToLower(name)) - 1

\* The text of column j (zero-based) of the r-th row: NULL is empty, the
\* integer is in decimal, the text is its bytes.
RowText(r, j) ==
  IF RowCols(r)[j + 1].t = 0 THEN <<>>
  ELSE IF RowCols(r)[j + 1].t = 1 THEN SignedText(RowCols(r)[j + 1].d)
  ELSE RowCols(r)[j + 1].d

IsEquality(w) == w.kind = "comparison" /\ w.operator = "="

\* The rows among the first n that satisfy the query's predicate; all of them
\* when there is no WHERE clause.
MatchingRows(q, n) ==
  {r \in 1..n : IsEquality(q.where) => RowText(r, TableTIndex(q.where.left)) = q.where.lit}

SelectRuns ==
  /\ vin.op = "select" /\ Intact /\ pc \in {"traverse", "done"}
  /\ (vin.where.kind = "none" \/ IsEquality(vin.where))

\* C16: after any number of rows, one line has been printed for each row whose
\* text at the predicate's column equals the literal, and none for the others
\* (so every row, without a predicate); the traversal reaches every row.
C16_WhereFilters ==
  SelectRuns =>
     /\ Len(vout) = Cardinality(MatchingRows(vin, Len(visited)))
     /\ pc = "done" => Rowids(visited) = Expected(tree)

\* C16's case: of three rows with c = "B", "A", "B" the first and the third
\* were printed for WHERE c = 'B'.
C16_Witness ==
  /\ vin.op = "select" /\ Intact /\ pc = "done"
  /\ IsEquality(vin.where) /\ vin.where.left = <<99>> /\ vin.where.lit = <<66>>
  /\ Len(visited) = 3 /\ Len(vout) = 2
  /\ MatchingRows(vin, 3) = {1, 3}

\* The j-th of the matching rows.
NthMatching(q, n, j) ==
  CHOOSE r \in MatchingRows(q, n) :
     Cardinality({s \in MatchingRows(q, n) : s <= r}) = j

\* The fields of the line for row r: per selected column, in the order of the
\* SELECT list, the rowid in decimal for the rowid alias and the column's
\* text otherwise.
ExpectedFields(q, r) ==
  [i \in 1..Len(q.columnNames) |->
     IF TableT[TableTIndex(q.columnNames[i]) + 1].type.pk
     THEN DecText(NatDigits(RowidBase + r))
     ELSE RowText(r, TableTIndex(q.columnNames[i]))]

\* C17: every printed line is the fields of its row, in the order the columns
\* were requested, separated by "|".
C17_OutputLine ==
  SelectRuns =>
     \A j \in 1..Len(vout) :
        /\ j <= Cardinality(MatchingRows(vin, Len(visited)))
        /\ Split(vout[j], 124) = ExpectedFields(vin, NthMatching(vin, Len(visited), j))

\* C17's case: SELECT c, id printed "B|126" for the first row.
C17_Witness ==
  /\ vin.op = "select" /\ Intact /\ pc = "done"
  /\ vin.columnNames = << <<99>>, <<105, 100>> >>
  /\ Len(vout) >= 1
  /\ vout[1] = <<66, 124, 49, 50, 54>>

\* C19: a WHERE clause that is not a single equality comparison is rejected:
\* no row is traversed or printed for it.
C19_UnsupportedWhereRejected ==
  (vin.op = "select" /\ vin.where.kind # "none" /\ ~IsEquality(vin.where)) =>
     (pc \in {"query", "exit"} /\ visited = <<>> /\ vout = <<>>)

\* C18: when the tree holds a page that cannot be read or whose type is
\* neither 0x05 nor 0x0d, the query fails: countRows returns no count and the
\* traversal does not run to its normal end.
C18_InvalidPageFails ==
  corrupt # "none" => (count = -1 /\ pc # "done")

-----------------------------------------------------------------------------
(* Specification of the page loads: the page size read by handleSQLQuery    *)
(* and the offset and length countRows and traverseBTree read a page with.  *)

MaxPageNum == 8

\* The values the file format allows at bytes 16..17 of the file header:
\* the powers of two from 512 to 32768, and 1.
StoredPageSizes == {1} \cup {Pow2(k) : k \in 9..15}

\* The file header with the given value in its page-size field.
FileHeaderWith(stored) == [FileHeader EXCEPT ![17] = stored \div 256, ![18] = stored % 256]

\* binary.Read of the two bytes at offset 16 into a uint16.
readPageSize(header) == ReadU16(header, 16)

\* pageOffset := int64(pageNum-1) * pageSize; page := make([]byte, pageSize)
pageLoad(pageSize, pageNum) ==
  [pageSize |-> pageSize, offset |-> (pageNum - 1) * pageSize, length |-> pageSize]

PageSizeInit ==
  /\ NoBTree
  /\ pc = "open"
  /\ vout = <<>>
  /\ \E stored \in StoredPageSizes, n \in 1..MaxPageNum :
       vin = [op |-> "load", stored |-> stored, pageNum |-> n,
              header |-> FileHeaderWith(stored)]

ReadPageSize ==
  /\ pc = "open" /\ vin.op = "load"
  /\ vout' = [pageSize |-> readPageSize(vin.header)]
  /\ pc' = "load"
  /\ UNCHANGED vin
  /\ BTreeUnchanged

LoadPage ==
  /\ pc = "load" /\ vin.op = "load"
  /\ vout' = pageLoad(vout.pageSize, vin.pageNum)
  /\ pc' = "done"
  /\ UNCHANGED vin
  /\ BTreeUnchanged

PageSizeNext == ReadPageSize \/ LoadPage

PageSizeSpec == PageSizeInit /\ [][PageSizeNext]_vars

\* The page size a stored value stands for.
EffectivePageSize(stored) == IF stored = 1 THEN 65536 ELSE stored

\* C20: page n is read as EffectivePageSize bytes from offset
\* (n - 1) * EffectivePageSize, where the stored value 1 stands for 65536.
C20_PageSizeOneIs65536 ==
  (pc = "done" /\ vin.op = "load") =>
     /\ vout.length = EffectivePageSize(vin.stored)
     /\ vout.offset = (vin.pageNum - 1) * EffectivePageSize(vin.stored)

\* The same for the stored values other than 1.
C20_StoredValueUsed ==
  (pc = "done" /\ vin.op = "load" /\ vin.stored # 1) =>
     /\ vout.length = vin.stored
     /\ vout.offset = (vin.pageNum - 1) * vin.stored

\* C23: during a SELECT no index of selectRows lies outside the column values
\* of the row at hand, also when the row stores fewer columns than the table
\* declares: the processor does not panic.
C23_IndicesWithinRow ==
  (vin.op = "select" /\ corrupt \in {"none", "fewcolumns"}) => pc # "panic"

\* The same for tables all of whose rows store every declared column.
C23_FullRows ==
  (vin.op = "select" /\ corrupt = "none") => pc # "panic"

\* The rows of the table whose rowid in decimal is the literal of an equality
\* predicate on the rowid alias.
RowidMatches(q, t) ==
  {r \in 1..NumRows(t) :
     /\ IsEquality(q.where)
     /\ TableT[TableTIndex(q.where.left) + 1].type.pk
     /\ q.where.lit = DecText(NatDigits(RowidBase + r))}

\* C24: a predicate on the rowid alias whose literal is the rowid of a stored
\* row emits that row.
C24_RowidPredicate ==
  (vin.op = "select" /\ Intact /\ pc = "done" /\ vin.where.left = <<105, 100>>) =>
     Len(vout) >= Cardinality(RowidMatches(vin, tree))

-----------------------------------------------------------------------------
\* Termination of the two walks.

\* The height of a table: the number of pages on its longest path from the
\* root to a leaf.
RECURSIVE Height(_)
RECURSIVE HeightOf(_, _)
HeightOf(kids, i) ==
  IF i = 0 THEN 0 ELSE MaxOf({HeightOf(kids, i - 1), Height(kids[i])})
Height(t) == 1 + HeightOf(t.kids, Len(t.kids))

\* Whether some interior page of the file names itself as one of its children.
SelfReferring == corrupt \in {"selfright", "selfleft"}

\* C21: traverseBTree terminates on every database file with a recursion no
\* deeper than the height of the table, files in which an interior page names
\* itself as a child included: the calls in progress never outnumber the
\* levels of the table and the walk never recurses without end.
C21_DepthBoundedByHeight ==
  vin.op = "select" => (pc # "overflow" /\ Len(stack) <= Height(tree))

\* C21, for countRows: the count of a file in which an interior page names
\* itself as a child does not recurse without end.
C21_CountRowsTerminates == pc # "overflow"

\* C21, on the files without a page that names itself: the calls of
\* traverseBTree in progress never outnumber the levels of the table.
C21_AcyclicDepth ==
  ~SelfReferring => (pc # "overflow" /\ Len(stack) <= Height(tree))

=============================================================================
